---- MODULE Spec2Model ----
(***************************************************************************)
(* Model of src/src/lib.rs: the LegacyTransaction builder, the partial     *)
(* serializer (BitcoinSerialize) and the decoder (TryFrom<&[u8]>) with its *)
(* compact-size reader.                                                    *)
(*                                                                         *)
(* Number representation.  TLC integers are 32-bit signed, so              *)
(*   i32  is an Int in -2^31 .. 2^31-1,                                    *)
(*   u32  is a pair  <<lo, hi>>  of 16-bit limbs (value lo + 2^16*hi),     *)
(*   u64  is a tuple <<l0, l1, l2, l3>> of 16-bit limbs,                   *)
(*   u8   is an Int in 0..255, a byte buffer is a sequence of u8.          *)
(* Rust slices are 0-based and half-open; Slice(data, a, b) is data[a..b]. *)
(***************************************************************************)
EXTENDS Integers, Sequences, FiniteSets, TLC

VARIABLES
    pc,        \* position of the client: "builder", "tx", "bytes", "done"
    builder,   \* the LegacyTransactionBuilder value being chained
    calls,     \* history: the setter calls made on the builder, in order
    tx,        \* the LegacyTransaction returned by build()
    data,      \* the byte buffer handed to try_from
    origin,    \* history: who produced data ("none", "serialize", "peer", "untrusted")
    decoded,   \* outcome of try_from(data)
    offset     \* value of try_from's local `offset` when it returned

vars == <<pc, builder, calls, tx, data, origin, decoded, offset>>

\* ------------------------------------------------------------ bounds

\* Most setter calls chained on one builder.
MaxCalls == 4
\* Longest raw buffer fed to the decoder byte by byte.
MaxLen == 11
\* Largest input/output count the decoder is asked to materialise.
MaxCount == 2

\* ------------------------------------------------------------ integers

U32(n) == <<n, 0>>
U64(n) == <<n, 0, 0, 0>>

\* data[a..b]
Slice(s, a, b) == SubSeq(s, a + 1, b)

\* u16::from_le_bytes
u16_from_le_bytes(b) == b[1] + 256 * b[2]

\* u32::from_le_bytes
u32_from_le_bytes(b) == <<b[1] + 256 * b[2], b[3] + 256 * b[4]>>

\* u64::from_le_bytes
u64_from_le_bytes(b) ==
    <<b[1] + 256 * b[2], b[3] + 256 * b[4], b[5] + 256 * b[6], b[7] + 256 * b[8]>>

\* i32::from_le_bytes: two's complement, the sign in the top bit of b[4]
i32_from_le_bytes(b) ==
    b[1] + 256 * b[2] + 65536 * b[3]
      + 16777216 * (IF b[4] >= 128 THEN b[4] - 256 ELSE b[4])

\* i32::to_le_bytes (\div rounds down and % is non-negative: two's complement)
i32_to_le_bytes(v) ==
    <<v % 256, (v \div 256) % 256, (v \div 65536) % 256, (v \div 16777216) % 256>>

\* u32::to_le_bytes
u32_to_le_bytes(v) ==
    <<v[1] % 256, v[1] \div 256, v[2] % 256, v[2] \div 256>>

\* u64::to_le_bytes
u64_to_le_bytes(v) ==
    <<v[1] % 256, v[1] \div 256, v[2] % 256, v[2] \div 256,
      v[3] % 256, v[3] \div 256, v[4] % 256, v[4] \div 256>>

\* A u64 that is at most n (n < 2^16).
U64AtMost(v, n) == v[2] = 0 /\ v[3] = 0 /\ v[4] = 0 /\ v[1] <= n

\* Mutant: the inclusive range 0..=count.
RepeatInclusive(count, item) == [i \in 1..(count[1] + 1) |-> item]

\* (0..count).map(|_| item).collect(), for a count below 2^16
Repeat(count, item) == [i \in 1..count[1] |-> item]

\* ------------------------------------------------------------ builder

\* impl Default for LegacyTransactionBuilder
default ==
    [version |-> 1, inputs |-> <<>>, outputs |-> <<>>, lock_time |-> U32(0)]

\* LegacyTransactionBuilder::new
new == default

\* LegacyTransaction::builder
LegacyTransaction_builder == new

\* LegacyTransactionBuilder::version
version(self, v) == [self EXCEPT !.version = v]

\* Mutant: the input is inserted at the front.
add_input_front(self, input) == [self EXCEPT !.inputs = <<input>> \o self.inputs]

\* LegacyTransactionBuilder::add_input
add_input(self, input) == [self EXCEPT !.inputs = Append(self.inputs, input)]

\* LegacyTransactionBuilder::add_output
add_output(self, output) == [self EXCEPT !.outputs = Append(self.outputs, output)]

\* LegacyTransactionBuilder::lock_time
lock_time(self, lt) == [self EXCEPT !.lock_time = lt]

\* LegacyTransactionBuilder::build
build(self) ==
    [version |-> self.version, inputs |-> self.inputs,
     outputs |-> self.outputs, lock_time |-> self.lock_time]

\* ------------------------------------------------------------ serialize

\* Mutant: the encoder also writes the number of inputs.
serialize_with_count(t) ==
    i32_to_le_bytes(t.version) \o <<Len(t.inputs)>> \o u32_to_le_bytes(t.lock_time)

\* impl BitcoinSerialize for LegacyTransaction
serialize(t) == i32_to_le_bytes(t.version) \o u32_to_le_bytes(t.lock_time)

\* ------------------------------------------------------------ decode

\* Results.  A slice index out of range panics; `?` and the length check return Err.
Ok(v) == [tag |-> "Ok", val |-> v]
Err == [tag |-> "Err", error |-> "InvalidTransaction"]
Panic == [tag |-> "Panic"]

\* fn read_compact_size(data, offset) -> Result<(u64, usize), BitcoinError>
read_compact_size(d, off) ==
    IF off >= Len(d) THEN Err
    ELSE LET first == d[off + 1] IN
         IF first <= 252 THEN Ok([value |-> U64(first), size |-> 1])
         ELSE IF first = 253 THEN
             IF off + 3 > Len(d) THEN Panic
             ELSE Ok([value |-> U64(u16_from_le_bytes(Slice(d, off + 1, off + 3))),
                      size |-> 3])
         ELSE IF first = 254 THEN
             IF off + 5 > Len(d) THEN Panic
             ELSE LET w == u32_from_le_bytes(Slice(d, off + 1, off + 5)) IN
                  Ok([value |-> <<w[1], w[2], 0, 0>>, size |-> 5])
         ELSE
             IF off + 9 > Len(d) THEN Panic
             ELSE Ok([value |-> u64_from_le_bytes(Slice(d, off + 1, off + 9)),
                      size |-> 9])

\* The placeholder input try_from creates for every declared input.
DummyInput ==
    [previous_output |-> [txid |-> [i \in 1..32 |-> 0], vout |-> U32(0)],
     script_sig |-> <<>>,
     sequence |-> <<65535, 65535>>]

\* The placeholder output try_from creates for every declared output.
DummyOutput == [value |-> U64(0), script_pubkey |-> <<>>]

\* Mutant: the length check off by one.
TooShortOffByOne(d) == Len(d) <= 10

\* data.len() < 10
TooShort(d) == Len(d) < 10

\* impl TryFrom<&[u8]> for LegacyTransaction.  The result and, beside it, the
\* value the local `offset` holds when the function is left.
try_from(d) ==
    IF TooShort(d) THEN [result |-> Err, offset |-> 0]
    ELSE
      LET ver == i32_from_le_bytes(Slice(d, 0, 4))
          rin == read_compact_size(d, 4)
      IN
      IF rin.tag # "Ok" THEN [result |-> rin, offset |-> 4]
      ELSE
        LET off == 4 + rin.val.size
            ins == Repeat(rin.val.value, DummyInput)
            rout == read_compact_size(d, off)
        IN
        IF rout.tag # "Ok" THEN [result |-> rout, offset |-> off]
        ELSE
          LET outs == Repeat(rout.val.value, DummyOutput)
              lt == u32_from_le_bytes(Slice(d, Len(d) - 4, Len(d)))
          IN [result |-> Ok([version |-> ver, inputs |-> ins,
                             outputs |-> outs, lock_time |-> lt]),
              offset |-> off]

\* The decoder materialises one element per declared item; the model feeds it
\* only buffers whose counts, as the decoder reads them, are at most MaxCount.
CountsWithinBound(d) ==
    LET rin == read_compact_size(d, 4) IN
    (Len(d) >= 10 /\ rin.tag = "Ok") =>
        /\ U64AtMost(rin.val.value, MaxCount)
        /\ LET rout == read_compact_size(d, 4 + rin.val.size) IN
           rout.tag = "Ok" => U64AtMost(rout.val.value, MaxCount)

\* ------------------------------------------------------------ wire format

\* Compact-size encoding of a length below 2^16 (spec section 4.1, inverted).
WireCompactSize(n) ==
    IF n <= 252 THEN <<n>> ELSE <<253, n % 256, n \div 256>>

\* One input on the wire (spec section 6).
WireInput(i) ==
    i.previous_output.txid \o u32_to_le_bytes(i.previous_output.vout)
      \o WireCompactSize(Len(i.script_sig)) \o i.script_sig
      \o u32_to_le_bytes(i.sequence)

\* One output on the wire (spec section 6).
WireOutput(o) ==
    u64_to_le_bytes(o.value) \o WireCompactSize(Len(o.script_pubkey))
      \o o.script_pubkey

RECURSIVE Concat(_)
\* The concatenation of a sequence of byte sequences.
Concat(ss) == IF ss = <<>> THEN <<>> ELSE Head(ss) \o Concat(Tail(ss))

\* A whole transaction on the wire (spec section 6): version, input count,
\* inputs, output count, outputs, lock time.
WireLayout(t) ==
    i32_to_le_bytes(t.version)
      \o WireCompactSize(Len(t.inputs))
      \o Concat([k \in 1..Len(t.inputs) |-> WireInput(t.inputs[k])])
      \o WireCompactSize(Len(t.outputs))
      \o Concat([k \in 1..Len(t.outputs) |-> WireOutput(t.outputs[k])])
      \o u32_to_le_bytes(t.lock_time)

\* ------------------------------------------------------------ inputs

\* A value that has been moved out of, or has not been produced yet.
Moved == [moved |-> TRUE]
Unset == [unset |-> TRUE]

\* Versions the client sets (i32).
Versions == {2, -2}

\* Lock times the client sets (u32).
LockTimes == {U32(500), <<65535, 65535>>}

\* Inputs the client adds: one equal to the decoder's placeholder, one not.
TxInputs ==
    {DummyInput,
     [previous_output |-> [txid |-> [i \in 1..32 |-> 1], vout |-> U32(3)],
      script_sig |-> <<81>>,
      sequence |-> U32(7)]}

\* Outputs the client adds: one equal to the decoder's placeholder, one not.
TxOutputs ==
    {DummyOutput,
     [value |-> <<50000, 1, 0, 0>>, script_pubkey |-> <<118, 169>>]}

\* Bytes of untrusted buffers: small counts and the three wide discriminants.
WireBytes == {0, 1, 253, 254, 255}

\* The 4-byte version words untrusted buffers start with.
VersionWords ==
    {<<1, 0, 0, 0>>, <<255, 0, 0, 0>>, <<1, 0, 0, 255>>, <<255, 1, 0, 128>>}

\* The bytes that may follow buffer d: it starts like one of the version
\* words and goes on in WireBytes.
NextBytes(d) ==
    IF Len(d) < 4
    THEN {w[Len(d) + 1] : w \in {x \in VersionWords : SubSeq(x, 1, Len(d)) = d}}
    ELSE WireBytes

\* ------------------------------------------------------------ actions

\* builder().version(v)
Version(v) ==
    /\ pc = "builder"
    /\ Len(calls) < MaxCalls
    /\ builder' = version(builder, v)
    /\ calls' = Append(calls, [op |-> "version", arg |-> v])
    /\ UNCHANGED <<pc, tx, data, origin, decoded, offset>>

\* builder().add_input(i)
AddInput(i) ==
    /\ pc = "builder"
    /\ Len(calls) < MaxCalls
    /\ builder' = add_input(builder, i)
    /\ calls' = Append(calls, [op |-> "add_input", arg |-> i])
    /\ UNCHANGED <<pc, tx, data, origin, decoded, offset>>

\* builder().add_output(o)
AddOutput(o) ==
    /\ pc = "builder"
    /\ Len(calls) < MaxCalls
    /\ builder' = add_output(builder, o)
    /\ calls' = Append(calls, [op |-> "add_output", arg |-> o])
    /\ UNCHANGED <<pc, tx, data, origin, decoded, offset>>

\* builder().lock_time(lt)
LockTime(lt) ==
    /\ pc = "builder"
    /\ Len(calls) < MaxCalls
    /\ builder' = lock_time(builder, lt)
    /\ calls' = Append(calls, [op |-> "lock_time", arg |-> lt])
    /\ UNCHANGED <<pc, tx, data, origin, decoded, offset>>

\* builder().build(): the builder is moved into the transaction.
Build ==
    /\ pc = "builder"
    /\ tx' = build(builder)
    /\ builder' = Moved
    /\ pc' = "tx"
    /\ UNCHANGED <<calls, data, origin, decoded, offset>>

\* tx.serialize()
Serialize ==
    /\ pc = "tx"
    /\ data' = serialize(tx)
    /\ origin' = "serialize"
    /\ pc' = "bytes"
    /\ UNCHANGED <<builder, calls, tx, decoded, offset>>

\* A peer sends the transaction in the wire format of spec section 6.
ReceiveWire ==
    /\ pc = "tx"
    /\ data' = WireLayout(tx)
    /\ origin' = "peer"
    /\ pc' = "bytes"
    /\ UNCHANGED <<builder, calls, tx, decoded, offset>>

\* An untrusted source supplies one more byte of a raw buffer.
PushByte(b) ==
    /\ pc = "bytes"
    /\ Len(data) < MaxLen
    /\ data' = Append(data, b)
    /\ UNCHANGED <<pc, builder, calls, tx, origin, decoded, offset>>

\* LegacyTransaction::try_from(&data)
TryFrom ==
    /\ pc = "bytes"
    /\ CountsWithinBound(data)
    /\ LET r == try_from(data) IN
         /\ decoded' = r.result
         /\ offset' = r.offset
    /\ pc' = "done"
    /\ UNCHANGED <<builder, calls, tx, data, origin>>

\* ------------------------------------------------------------ specifications

\* A client builds a transaction, encodes it and decodes the bytes.
Init ==
    /\ pc = "builder"
    /\ builder = LegacyTransaction_builder
    /\ calls = <<>>
    /\ tx = Unset
    /\ data = <<>>
    /\ origin = "none"
    /\ decoded = Unset
    /\ offset = 0

Next ==
    \/ \E v \in Versions : Version(v)
    \/ \E i \in TxInputs : AddInput(i)
    \/ \E o \in TxOutputs : AddOutput(o)
    \/ \E lt \in LockTimes : LockTime(lt)
    \/ Build
    \/ Serialize
    \/ ReceiveWire
    \/ TryFrom

Spec == Init /\ [][Next]_vars

\* The decoder is handed raw buffers from an untrusted source.
InitDecode ==
    /\ pc = "bytes"
    /\ builder = Moved
    /\ calls = <<>>
    /\ tx = Unset
    /\ data = <<>>
    /\ origin = "untrusted"
    /\ decoded = Unset
    /\ offset = 0

NextDecode ==
    \/ \E b \in NextBytes(data) : PushByte(b)
    \/ TryFrom

SpecDecode == InitDecode /\ [][NextDecode]_vars

\* ------------------------------------------------------------ what the spec prescribes

\* Bytes that follow a compact-size discriminant (spec section 4.1).
CompactWidth(first) ==
    IF first <= 252 THEN 0 ELSE IF first = 253 THEN 2 ELSE IF first = 254 THEN 4 ELSE 8

\* The discriminant at offset o and the bytes it announces lie inside d.
CompactInBounds(d, o) ==
    o < Len(d) /\ o + 1 + CompactWidth(d[o + 1]) <= Len(d)

\* (value, consumed) is what spec section 4.1 prescribes at offset o of d: the
\* little-endian bytes of the value are the announced bytes, zero-extended.
CompactAgrees(d, o, value, consumed) ==
    LET first == d[o + 1]
        w == CompactWidth(first)
    IN /\ consumed = 1 + w
       /\ \A k \in 1..4 : value[k] \in 0..65535
       /\ IF w = 0 THEN value = U64(first)
          ELSE u64_to_le_bytes(value)
                 = Slice(d, o + 1, o + 1 + w) \o [k \in 1..(8 - w) |-> 0]

RECURSIVE InputsEnd(_, _, _)
\* Offset reached after n wire inputs that start at offset o (spec section
\* 4.2), or -1 when a field overruns the buffer.
InputsEnd(d, o, n) ==
    IF n = 0 THEN o
    ELSE IF ~CompactInBounds(d, o + 36) THEN -1
    ELSE LET r == read_compact_size(d, o + 36) IN
         IF ~U64AtMost(r.val.value, 65535) THEN -1
         ELSE LET e == o + 36 + r.val.size + r.val.value[1] + 4 IN
              IF e > Len(d) THEN -1 ELSE InputsEnd(d, e, n - 1)

RECURSIVE OutputsEnd(_, _, _)
\* Offset reached after n wire outputs that start at offset o, or -1.
OutputsEnd(d, o, n) ==
    IF n = 0 THEN o
    ELSE IF ~CompactInBounds(d, o + 8) THEN -1
    ELSE LET r == read_compact_size(d, o + 8) IN
         IF ~U64AtMost(r.val.value, 65535) THEN -1
         ELSE LET e == o + 8 + r.val.size + r.val.value[1] IN
              IF e > Len(d) THEN -1 ELSE OutputsEnd(d, e, n - 1)

\* Offset reached after version, input count, inputs, output count and
\* outputs have been consumed as spec section 4.2 prescribes, or -1 when the
\* buffer ends before that.
FieldsEnd(d) ==
    IF Len(d) < 10 \/ ~CompactInBounds(d, 4) THEN -1
    ELSE LET rin == read_compact_size(d, 4) IN
         IF ~U64AtMost(rin.val.value, MaxCount) THEN -1
         ELSE LET e == InputsEnd(d, 4 + rin.val.size, rin.val.value[1]) IN
              IF e = -1 \/ ~CompactInBounds(d, e) THEN -1
              ELSE LET rout == read_compact_size(d, e) IN
                   IF ~U64AtMost(rout.val.value, MaxCount) THEN -1
                   ELSE OutputsEnd(d, e + rout.val.size, rout.val.value[1])

\* The transaction the setter calls made so far describe.
LastArg(op, dflt) ==
    LET idx == {k \in 1..Len(calls) : calls[k].op = op} IN
    IF idx = {} THEN dflt
    ELSE calls[CHOOSE k \in idx : \A j \in idx : j <= k].arg

ArgsOf(op) ==
    LET sel == SelectSeq(calls, LAMBDA c : c.op = op) IN
    [k \in 1..Len(sel) |-> sel[k].arg]

\* ------------------------------------------------------------ claims

\* C1: round trip. For every transaction with at least one input and one
\* output, try_from on the bytes of serialize succeeds and returns an equal
\* transaction.
C1_RoundTrip ==
    (pc = "done" /\ origin = "serialize"
       /\ Len(tx.inputs) >= 1 /\ Len(tx.outputs) >= 1)
      => (decoded.tag = "Ok" /\ decoded.val = tx)

\* C2: try_from is total: it returns a transaction or InvalidTransaction and
\* never panics; a wide discriminant of the input count (offset 4) or of the
\* output count (the offset the decoder reads it at) whose bytes are not all
\* inside the buffer gives InvalidTransaction.
C2_DecodeTotal ==
    pc = "done" =>
        /\ decoded.tag \in {"Ok", "Err"}
        /\ (Len(data) >= 10 /\ ~CompactInBounds(data, 4)) => decoded = Err
        /\ (Len(data) >= 10 /\ offset > 4 /\ offset < Len(data)
              /\ ~CompactInBounds(data, offset)) => decoded = Err

\* C3: field-accurate decode. When try_from succeeds on a buffer laid out in
\* the wire format, the decoded inputs and outputs are the encoded ones.
C3_FieldAccurate ==
    (pc = "done" /\ origin = "peer" /\ decoded.tag = "Ok")
      => (decoded.val.inputs = tx.inputs /\ decoded.val.outputs = tx.outputs)

\* C4: trailing-garbage rejection. When the offset reached after all declared
\* fields is not exactly the buffer length minus 4, try_from returns
\* InvalidTransaction.
C4_TrailingRejected ==
    (pc = "done" /\ FieldsEnd(data) # -1 /\ FieldsEnd(data) # Len(data) - 4)
      => decoded = Err

\* C5: minimum length. Every buffer shorter than 10 bytes is rejected; a
\* 10-byte buffer whose count bytes are both 0 decodes to the little-endian
\* signed version of bytes [0,4), no inputs, no outputs and the little-endian
\* lock time of the last 4 bytes.
C5_MinimumLength ==
    pc = "done" =>
        /\ Len(data) < 10 => decoded = Err
        /\ (Len(data) = 10 /\ data[5] = 0 /\ data[6] = 0) =>
             /\ decoded.tag = "Ok"
             /\ i32_to_le_bytes(decoded.val.version) = SubSeq(data, 1, 4)
             /\ decoded.val.inputs = <<>>
             /\ decoded.val.outputs = <<>>
             /\ \A k \in 1..2 : decoded.val.lock_time[k] \in 0..65535
             /\ u32_to_le_bytes(decoded.val.lock_time) = SubSeq(data, 7, 10)

C5_Witness ==
    /\ pc = "done" /\ Len(data) = 10 /\ data[5] = 0 /\ data[6] = 0
    /\ decoded.tag = "Ok" /\ decoded.val.version < 0

C7_Builder ==
    LET expected == [version |-> LastArg("version", 1),
                     inputs |-> ArgsOf("add_input"),
                     outputs |-> ArgsOf("add_output"),
                     lock_time |-> LastArg("lock_time", <<0, 0>>)]
    IN /\ pc = "builder" => builder = expected
       /\ (origin # "untrusted" /\ pc # "builder") => tx = expected

C7_Witness ==
    /\ pc = "tx"
    /\ Len(tx.inputs) = 2 /\ tx.inputs[1] # tx.inputs[2]
    /\ Len(tx.outputs) = 1
    /\ tx.version = -2

\* C8: serialize returns exactly 8 bytes, the little-endian version followed
\* by the little-endian lock time, whatever the inputs and outputs are.
C8_PartialEncoding ==
    origin = "serialize" =>
        /\ Len(data) = 8
        /\ \A k \in 1..8 : data[k] \in 0..255
        /\ i32_from_le_bytes(SubSeq(data, 1, 4)) = tx.version
        /\ u32_from_le_bytes(SubSeq(data, 5, 8)) = tx.lock_time
        /\ \A ins \in {<<>>, <<DummyInput>>} : \A outs \in {<<>>, <<DummyOutput>>} :
             serialize([tx EXCEPT !.inputs = ins, !.outputs = outs]) = data

C8_Witness ==
    /\ origin = "serialize" /\ pc = "bytes"
    /\ tx.version < 0 /\ tx.lock_time = <<65535, 65535>>
    /\ Len(tx.inputs) = 1 /\ Len(tx.outputs) = 1

\* C9: compact-size reader. Wherever the bytes needed are in bounds,
\* read_compact_size returns the value and consumed count of the branch the
\* discriminant selects, and the caller advances its offset by exactly the
\* consumed count of each count it reads.
C9_CompactSize ==
    /\ \A o \in 0..(Len(data) - 1) :
         CompactInBounds(data, o) =>
           LET r == read_compact_size(data, o) IN
           r.tag = "Ok" /\ CompactAgrees(data, o, r.val.value, r.val.size)
    /\ (pc = "done" /\ decoded.tag = "Ok") =>
         LET rin == read_compact_size(data, 4)
             rout == read_compact_size(data, 4 + rin.val.size)
         IN offset = 4 + rin.val.size + rout.val.size

\* C10: whenever try_from succeeds, the bytes of the version, the input count
\* and the output count end before the final 4 bytes read as lock time.
C10_LockTimeDisjoint ==
    (pc = "done" /\ decoded.tag = "Ok") =>
        LET rin == read_compact_size(data, 4)
            rout == read_compact_size(data, 4 + rin.val.size)
        IN 4 + rin.val.size + rout.val.size <= Len(data) - 4

====
